---------------------------- MODULE Spec2Model ----------------------------
(***************************************************************************)
(* State-machine model of the task-board API (Django REST Framework):     *)
(* the relational store (users, boards with member sets, tasks, comments) *)
(* and one action per HTTP handler.  A request is received (Receive),     *)
(* served in one step by the handler its route names, and its response    *)
(* is delivered (Deliver); `request` and `response` are the messages in   *)
(* flight.                                                                 *)
(*                                                                         *)
(* Spec serves every route over a small store with many payloads.          *)
(* SpecAuth has registration and login only, with every spelling of an     *)
(* address; SpecRace adds a second worker whose registration is validated  *)
(* and saved in two steps.  SpecThreads has one board with several tasks   *)
(* and comments; SpecLists has several boards, tasks and comments.         *)
(* SpecGap has a second worker whose board, task and comment writes are    *)
(* interleaved, query by query, with the requests of the first.            *)
(***************************************************************************)
EXTENDS Integers, Sequences, FiniteSets, TLC

\* ------------------------------------------------------------------ bounds
MaxUsers == 2
MaxBoards == 1
MaxTasks == 1
MaxComments == 1
MaxClock == 1
\* the comment threads (SpecThreads): one user, one board, more tasks and comments
MaxThreadTasks == 2
MaxThreadComments == 3
\* the board lists (SpecLists): more boards and tasks
MaxListBoards == 2
MaxListTasks == 2
MaxListComments == 2

VARIABLES
    users,      \* user id -> [email, password]            (authentication_user)
    tokens,     \* rows [key, user] of authtoken_token
    boards,     \* board id -> [title, owner, members]     (boards_board + M2M)
    tasks,      \* task id -> [board, title, status, priority, assignee, reviewer]
    comments,   \* comment id -> [task, author, content, created_at]
    boardSeq,   \* last board id handed out by the store
    taskSeq,    \* last task id handed out
    commentSeq, \* last comment id handed out
    clock,      \* the time the server's clock last showed
    parked,     \* a request another worker has validated and not yet written
    request,    \* the request being served, or NoRequest
    response    \* its response, or NoResponse while it is not served yet

db == <<users, tokens, boards, tasks, comments, boardSeq, taskSeq, commentSeq, clock>>
vars == <<users, tokens, boards, tasks, comments, boardSeq, taskSeq, commentSeq, clock,
          parked, request, response>>

\* None stands for Python's None / SQL NULL in a user reference.
None == 0

\* An optional JSON key is a sequence of length <= 1: <<>> is "key absent".
Absent == <<>>

\* --------------------------------------------------- requests and responses
NoBody == [title |-> Absent]
Request(op, method, user, id, cid, body) ==
    [op |-> op, method |-> method, user |-> user, id |-> id, cid |-> cid,
     body |-> body]
NoRequest == Request("none", "GET", None, 0, 0, NoBody)

\* status: the HTTP status; keys: the fields a 400 names; data: what is returned;
\* rows: the rows of a list, in the order returned
Response(status, keys, data) ==
    [status |-> status, keys |-> keys, data |-> data, rows |-> <<>>]
Listed(data, rows) == [status |-> 200, keys |-> {}, data |-> data, rows |-> rows]
NoResponse == Response(0, {}, {})

\* the handler of route `op` is about to serve the request in flight
Pending(op) == request.op = op /\ response = NoResponse

\* rows of a table without the rows `ids`
Without(table, ids) == [x \in DOMAIN table \ ids |-> table[x]]

\* ORDER BY: the rows S as a sequence, each row ahead of the rows it sorts
\* before (`before` is the set of pairs <<x, y>> with x sorted before y)
RECURSIVE OrderBy(_, _)
OrderBy(S, before) ==
    IF S = {} THEN <<>>
    ELSE LET first == CHOOSE x \in S : \A y \in S \ {x} : <<x, y>> \in before
         IN <<first>> \o OrderBy(S \ {first}, before)

\* ------------------------------------------------------------------- Init
Init ==
    /\ users = <<>>
    /\ tokens = {}
    /\ boards = <<>>
    /\ tasks = <<>>
    /\ comments = <<>>
    /\ boardSeq = 0
    /\ taskSeq = 0
    /\ commentSeq = 0
    /\ clock = 0
    /\ parked = NoRequest
    /\ request = NoRequest
    /\ response = NoResponse

\* ---------------------------------------------------------- authentication
\* users register with the addresses of EmailOrder in turn
EmailOrder == <<"a@x.io", "b@x.io", "c@x.io", "d@x.io">>
\* the address in lower case (email__iexact compares ignoring case)
Lower(e) ==
    CASE e \in {"A@x.io", "a@X.io"} -> "a@x.io"
      [] e \in {"B@x.io", "b@X.io"} -> "b@x.io"
      [] e \in {"C@x.io", "c@X.io"} -> "c@x.io"
      [] OTHER -> e
\* the address with its local part in capitals
CaseVariant(e) ==
    CASE e = "a@x.io" -> "A@x.io"
      [] e = "b@x.io" -> "B@x.io"
      [] e = "c@x.io" -> "C@x.io"
      [] OTHER -> e
\* the address with its domain in capitals
DomainVariant(e) ==
    CASE e = "a@x.io" -> "a@X.io"
      [] e = "b@x.io" -> "b@X.io"
      [] e = "c@x.io" -> "c@X.io"
      [] OTHER -> e
\* BaseUserManager.normalize_email: the domain part in lower case
NormalizeEmail(e) ==
    CASE e = "a@X.io" -> "a@x.io"
      [] e = "b@X.io" -> "b@x.io"
      [] e = "c@X.io" -> "c@x.io"
      [] OTHER -> e

\* (password, repeated_password) as clients send them
PasswordPairs == {<<"secret123", "secret123">>, <<"secret123", "secret124">>,
                  <<"secret123", "secret123 ">>, <<"short", "short">>,
                  <<"short", "secret123">>}
\* CharField(trim_whitespace=True).to_internal_value: value.strip()
Trim(p) == IF p = "secret123 " THEN "secret123" ELSE p
\* len() of a string of the payloads
PasswordLen(p) ==
    CASE p = "short" -> 5
      [] p = "secret123 " -> 10
      [] OTHER -> 9

\* User.email (unique=True): the address is stored already
EmailTakenExact(email) == \E u \in DOMAIN users : users[u].email = email
\* RegistrationSerializer.validate_email: email__iexact lookup
EmailTaken(email) == \E u \in DOMAIN users : Lower(users[u].email) = Lower(email)

\* RegistrationSerializer: field validation, then validate()
RegistrationErrors(b) ==
    LET fieldErrs ==
            (IF EmailTaken(b.email) THEN {"email"} ELSE {})
            \cup (IF PasswordLen(Trim(b.password)) < 8 THEN {"password"} ELSE {})
            \cup (IF PasswordLen(Trim(b.repeated_password)) < 8
                  THEN {"repeated_password"} ELSE {})
    IN IF fieldErrs # {} THEN fieldErrs
       ELSE IF Trim(b.password) # Trim(b.repeated_password) THEN {"repeated_password"}
       ELSE {}

\* Token.objects.create(user=u): a row with a key no other row has
TokenCreated(u) == tokens \cup {[key |-> Cardinality(tokens) + 1, user |-> u]}
\* Token.objects.get_or_create(user=u): the table afterwards
TokenGetOrCreateAlwaysNew(u) == TokenCreated(u)
TokenGetOrCreate(u) ==
    IF \E t \in tokens : t.user = u THEN tokens ELSE TokenCreated(u)
\* token.key of the row get_or_create returned
TokenKey(table, u) == (CHOOSE t \in table : t.user = u).key

\* POST /api/registration/
Register ==
    /\ Pending("register")
    /\ LET errs == RegistrationErrors(request.body)
           uid == Len(users) + 1
       IN IF errs # {}
          THEN /\ UNCHANGED <<users, tokens>>
               /\ response' = Response(400, errs, {})
          ELSE /\ users' = Append(users, [email |-> NormalizeEmail(request.body.email),
                                          password |-> Trim(request.body.password)])
               /\ tokens' = TokenGetOrCreate(uid)
               /\ response' = Response(201, {}, {[user_id |-> uid,
                                                  token |-> TokenKey(tokens', uid)]})
    /\ UNCHANGED <<boards, tasks, comments, boardSeq, taskSeq, commentSeq, clock, parked, request>>

\* LoginSerializer.validate: authenticate(email=..., password=...) finds the user
\* by the address as stored and checks the password
Authenticated(b) ==
    {u \in DOMAIN users : users[u].email = b.email /\ users[u].password = Trim(b.password)}

\* POST /api/login/
Login ==
    /\ Pending("login")
    /\ IF Authenticated(request.body) = {}
       THEN /\ tokens' = tokens
            /\ response' = Response(400, {"non_field_errors"}, {})
       ELSE LET uid == CHOOSE u \in Authenticated(request.body) : TRUE
            IN /\ tokens' = TokenGetOrCreate(uid)
               /\ response' = Response(200, {}, {[user_id |-> uid,
                                                  token |-> TokenKey(tokens', uid)]})
    /\ UNCHANGED <<users, boards, tasks, comments, boardSeq, taskSeq, commentSeq, clock,
                   parked, request>>

\* RegistrationView.post in a second worker, up to serializer.is_valid(): the
\* payload is valid against the users stored now; save() runs later
RegisterValidated ==
    /\ Pending("register")
    /\ parked = NoRequest
    /\ RegistrationErrors(request.body) = {}
    /\ parked' = request
    /\ request' = NoRequest
    /\ UNCHANGED <<db, response>>

\* ... and from serializer.save() on: create_user inserts the row unless the
\* unique index on email refuses it (IntegrityError); an index that compares
\* ignoring case also refuses a re-spelled address
RegisterSaved ==
    /\ parked.op = "register"
    /\ \/ /\ ~EmailTakenExact(NormalizeEmail(parked.body.email))
          /\ users' = Append(users, [email |-> NormalizeEmail(parked.body.email),
                                     password |-> Trim(parked.body.password)])
          /\ tokens' = TokenGetOrCreate(Len(users) + 1)
       \/ /\ EmailTaken(parked.body.email)
          /\ UNCHANGED <<users, tokens>>
    /\ parked' = NoRequest
    /\ UNCHANGED <<boards, tasks, comments, boardSeq, taskSeq, commentSeq, clock,
                   request, response>>

\* ------------------------------------------------------------------ boards
\* the test "owner or member" of the board views
IsMemberOnly(u, b) == u \in boards[b].members
IsOwnerOrMember(u, b) == boards[b].owner = u \/ u \in boards[b].members

\* BoardDetailUpdateDestroyView.get_object: who is turned away with 403
BoardAccessDeniedGetOnly(method, u, b) ==
    method = "GET" /\ ~IsOwnerOrMember(u, b)
BoardAccessDenied(method, u, b) ==
    method \in {"GET", "PATCH"} /\ ~IsOwnerOrMember(u, b)

\* validate_members: ListField(child=IntegerField(min_value=1)), then unknown ids
MembersInvalidUnchecked(m) == FALSE
MembersInvalid(m) ==
    m # Absent /\ \E i \in 1..Len(m[1]) : m[1][i] < 1 \/ m[1][i] \notin DOMAIN users

\* list(dict.fromkeys(value)), then members.set(User.objects.filter(id__in=ids))
MemberSet(m) == {m[1][i] : i \in 1..Len(m[1])} \cap DOMAIN users

\* on_delete=CASCADE: the tasks of a board, the comments of a set of tasks
TasksOf(b) == {t \in DOMAIN tasks : tasks[t].board = b}
CommentsOfNone(ts) == {}
CommentsOf(ts) == {c \in DOMAIN comments : comments[c].task \in ts}

\* the tasks a Count's filter keeps
TasksToDo == {t \in DOMAIN tasks : tasks[t].status = "to-do"}
TasksHighPrio == {t \in DOMAIN tasks : tasks[t].priority = "high"}

\* BoardCreateSerializer.get_*_count on a board object without annotations:
\* obj.members.count(), obj.tasks.count(), obj.tasks.filter(...).count()
BoardCounts(id, row) ==
    [id |-> id, title |-> row.title, owner_id |-> row.owner,
     member_count |-> Cardinality(row.members),
     ticket_count |-> Cardinality(TasksOf(id)),
     tasks_to_do_count |-> Cardinality(TasksOf(id) \cap TasksToDo),
     tasks_high_prio_count |-> Cardinality(TasksOf(id) \cap TasksHighPrio)]

\* BoardCreateSerializer field validation
BoardCreateErrors(b) ==
    (IF b.title = Absent THEN {"title"} ELSE {})
    \cup (IF MembersInvalid(b.members) THEN {"members"} ELSE {})

\* POST /api/boards/  (BoardListCreateView.perform_create, BoardCreateSerializer.create)
CreateBoard ==
    /\ Pending("createBoard")
    /\ LET errs == BoardCreateErrors(request.body)
           bid == boardSeq + 1
           row == [title |-> request.body.title[1], owner |-> request.user,
                   members |-> IF request.body.members = Absent THEN {}
                               ELSE MemberSet(request.body.members)]
       IN IF errs # {}
          THEN /\ UNCHANGED <<boards, boardSeq>>
               /\ response' = Response(400, errs, {})
          ELSE /\ boardSeq' = bid
               /\ boards' = boards @@ (bid :> row)
               /\ response' = [Response(201, {}, {bid})
                                   EXCEPT !.rows = <<BoardCounts(bid, row)>>]
    /\ UNCHANGED <<users, tokens, tasks, comments, taskSeq, commentSeq, clock, parked, request>>

\* BoardListCreateView.get_queryset, the rows the query joins: boards_board LEFT
\* JOIN boards_board_members LEFT JOIN tasks_task WHERE owner = u OR member = u
BoardJoinOwned(u) ==
    {r \in [board : DOMAIN boards, member : DOMAIN users \cup {None},
            task : DOMAIN tasks \cup {None}] :
        /\ IF boards[r.board].members = {} THEN r.member = None
           ELSE r.member \in boards[r.board].members
        /\ IF TasksOf(r.board) = {} THEN r.task = None
           ELSE r.task \in TasksOf(r.board)
        /\ boards[r.board].owner = u}
BoardJoin(u) ==
    {r \in [board : DOMAIN boards, member : DOMAIN users \cup {None},
            task : DOMAIN tasks \cup {None}] :
        /\ IF boards[r.board].members = {} THEN r.member = None
           ELSE r.member \in boards[r.board].members
        /\ IF TasksOf(r.board) = {} THEN r.task = None
           ELSE r.task \in TasksOf(r.board)
        /\ (boards[r.board].owner = u \/ r.member = u)}

\* Count("tasks", filter=..., distinct=True) over the joined rows of one board
CountJoined(rows, kept) == Cardinality({r \in rows : r.task \in kept})
CountDistinct(rows, kept) == Cardinality({r.task : r \in rows} \cap kept)

\* one board of the list: the annotations, and member_count by its own query
BoardAnnotated(b, rows) ==
    [id |-> b, title |-> boards[b].title, owner_id |-> boards[b].owner,
     member_count |-> Cardinality(boards[b].members),
     ticket_count |-> CountDistinct(rows, DOMAIN tasks),
     tasks_to_do_count |-> CountDistinct(rows, TasksToDo),
     tasks_high_prio_count |-> CountDistinct(rows, TasksHighPrio)]

\* GET /api/boards/  (ListModelMixin.list over get_queryset: one row per board
\* of the join, .order_by("id"))
ListBoards ==
    /\ Pending("listBoards")
    /\ LET rows == BoardJoin(request.user)
           ids == {r.board : r \in rows}
           order == OrderBy(ids, {p \in ids \X ids : p[1] < p[2]})
       IN response' =
            Listed(ids, [i \in 1..Len(order) |->
                           BoardAnnotated(order[i], {r \in rows : r.board = order[i]})])
    /\ UNCHANGED <<db, parked, request>>

\* GET /api/boards/{board_id}/  (RetrieveModelMixin.retrieve over get_object)
GetBoard ==
    /\ Pending("getBoard")
    /\ LET u == request.user
           b == request.id
       IN response' = IF b \notin DOMAIN boards THEN Response(404, {}, {})
                      ELSE IF BoardAccessDenied("GET", u, b) THEN Response(403, {}, {})
                      ELSE Response(200, {}, {boards[b]})
    /\ UNCHANGED <<db, parked, request>>

\* BoardDetailUpdateDestroyView.get_serializer_class
BoardSerializerClass(method) ==
    IF method = "PATCH" THEN "BoardMembersUpdateSerializer" ELSE "BoardDetailSerializer"

\* the board row after serializer.save():
\*   BoardMembersUpdateSerializer.update: title if given, members replaced if given
\*   BoardDetailSerializer (ModelSerializer.update): title is its only writable field
UpdatedBoardMerging(method, b, body) ==
    LET old == boards[b]
        title == IF body.title # Absent THEN body.title[1] ELSE old.title
    IN IF BoardSerializerClass(method) = "BoardMembersUpdateSerializer"
       THEN [old EXCEPT !.title = title,
                        !.members = IF body.members # Absent
                                    THEN @ \cup MemberSet(body.members) ELSE @]
       ELSE [old EXCEPT !.title = title]
UpdatedBoard(method, b, body) ==
    LET old == boards[b]
        title == IF body.title # Absent THEN body.title[1] ELSE old.title
    IN IF BoardSerializerClass(method) = "BoardMembersUpdateSerializer"
       THEN [old EXCEPT !.title = title,
                        !.members = IF body.members # Absent
                                    THEN MemberSet(body.members) ELSE @]
       ELSE [old EXCEPT !.title = title]

\* PATCH and PUT /api/boards/{board_id}/  (update: get_object, is_valid, save)
UpdateBoard ==
    /\ Pending("updateBoard")
    /\ LET m == request.method
           u == request.user
           b == request.id
           body == request.body
       IN IF b \notin DOMAIN boards
          THEN /\ boards' = boards
               /\ response' = Response(404, {}, {})
          ELSE IF BoardAccessDenied(m, u, b)
          THEN /\ boards' = boards
               /\ response' = Response(403, {}, {})
          ELSE IF BoardSerializerClass(m) = "BoardMembersUpdateSerializer"
                  /\ MembersInvalid(body.members)
          THEN /\ boards' = boards
               /\ response' = Response(400, {"members"}, {})
          ELSE /\ boards' = [boards EXCEPT ![b] = UpdatedBoard(m, b, body)]
               /\ response' = Response(200, {}, {UpdatedBoard(m, b, body)})
    /\ UNCHANGED <<users, tokens, tasks, comments, boardSeq, taskSeq, commentSeq, clock, parked, request>>

\* BoardDetailUpdateDestroyView.destroy: only the owner may delete
DeleteBoardDeniedNonMember(u, b) == ~IsOwnerOrMember(u, b)
DeleteBoardDenied(u, b) == u # boards[b].owner

\* DELETE /api/boards/{board_id}/
DeleteBoard ==
    /\ Pending("deleteBoard")
    /\ LET u == request.user
           b == request.id
       IN IF b \notin DOMAIN boards
          THEN /\ response' = Response(404, {}, {})
               /\ UNCHANGED <<boards, tasks, comments>>
          ELSE IF DeleteBoardDenied(u, b)
          THEN /\ response' = Response(403, {}, {})
               /\ UNCHANGED <<boards, tasks, comments>>
          ELSE /\ boards' = Without(boards, {b})
               /\ tasks' = Without(tasks, TasksOf(b))
               /\ comments' = Without(comments, CommentsOf(TasksOf(b)))
               /\ response' = Response(204, {}, {})
    /\ UNCHANGED <<users, tokens, boardSeq, taskSeq, commentSeq, clock, parked, request>>

\* ------------------------------------------------------------------- tasks
\* An id field of a payload as the client sent it: the key absent, JSON null,
\* the string "", JSON false, or an integer.
RawAbsent == [t |-> "absent", v |-> 0]
RawNull == [t |-> "null", v |-> 0]
RawEmpty == [t |-> "empty", v |-> 0]
RawFalse == [t |-> "false", v |-> 0]
RawInt(n) == [t |-> "int", v |-> n]

\* serializers.IntegerField(required=False, allow_null=True).run_validation:
\* "" and false are no integers ("A valid integer is required.")
IntegerFieldInvalid(raw) == raw.t \in {"empty", "false"}

\* attrs.pop("assignee_id", None): <<n>> for an integer, <<>> for Python's None
\* (the key was absent, or it was sent as null)
Popped(raw) == IF raw.t = "int" THEN <<raw.v>> ELSE <<>>

\* the membership test of the validate() methods, on board b's row
UserOnBoardUnchecked(uid, b) == TRUE
UserOnBoard(uid, b) == uid = boards[b].owner \/ uid \in boards[b].members

\* TaskCreateSerializer.validate, one id: "ok", "not_found" or "not_member"
CreateIdCheck(p, b) ==
    IF p = <<>> THEN "skip"
    ELSE IF p[1] \notin DOMAIN users THEN "not_found"
    ELSE IF ~UserOnBoard(p[1], b) THEN "not_member"
    ELSE "set"

\* TaskCreateSerializer.validate: the first failing id raises, assignee first
TaskCreateValidateErrors(body, b) ==
    IF CreateIdCheck(Popped(body.assignee_id), b) \in {"not_found", "not_member"}
    THEN {"assignee_id"}
    ELSE IF CreateIdCheck(Popped(body.reviewer_id), b) \in {"not_found", "not_member"}
    THEN {"reviewer_id"}
    ELSE {}

\* TaskCreateSerializer field validation (to_internal_value collects every field)
TaskCreateFieldErrors(body) ==
    (IF body.board = Absent \/ (body.board # Absent /\ body.board[1] \notin DOMAIN boards)
     THEN {"board"} ELSE {})
    \cup (IF body.title = Absent THEN {"title"} ELSE {})
    \cup (IF body.status = Absent THEN {"status"} ELSE {})
    \cup (IF body.priority = Absent THEN {"priority"} ELSE {})
    \cup (IF IntegerFieldInvalid(body.assignee_id) THEN {"assignee_id"} ELSE {})
    \cup (IF IntegerFieldInvalid(body.reviewer_id) THEN {"reviewer_id"} ELSE {})

\* TaskCreateView.create: the caller must be owner or member of the board named
CreateTaskDeniedUnchecked(u, b) == FALSE
CreateTaskDenied(u, b) == ~(boards[b].owner = u \/ u \in boards[b].members)

\* the row Task.objects.create(**validated_data) inserts
NewTask(body) ==
    [board |-> body.board[1], title |-> body.title[1], status |-> body.status[1],
     priority |-> body.priority[1],
     assignee |-> IF Popped(body.assignee_id) = <<>> THEN None
                  ELSE Popped(body.assignee_id)[1],
     reviewer |-> IF Popped(body.reviewer_id) = <<>> THEN None
                  ELSE Popped(body.reviewer_id)[1]]

\* POST /api/tasks/  (TaskCreateView.create, then CreateModelMixin.create)
CreateTask ==
    /\ Pending("createTask")
    /\ LET u == request.user
           body == request.body
           tid == taskSeq + 1
       IN IF body.board # Absent /\ body.board[1] \notin DOMAIN boards
          THEN /\ UNCHANGED <<tasks, taskSeq>>
               /\ response' = Response(404, {}, {})
          ELSE IF body.board # Absent /\ CreateTaskDenied(u, body.board[1])
          THEN /\ UNCHANGED <<tasks, taskSeq>>
               /\ response' = Response(403, {}, {})
          ELSE IF TaskCreateFieldErrors(body) # {}
          THEN /\ UNCHANGED <<tasks, taskSeq>>
               /\ response' = Response(400, TaskCreateFieldErrors(body), {})
          ELSE IF TaskCreateValidateErrors(body, body.board[1]) # {}
          THEN /\ UNCHANGED <<tasks, taskSeq>>
               /\ response' = Response(400, TaskCreateValidateErrors(body, body.board[1]), {})
          ELSE /\ taskSeq' = tid
               /\ tasks' = tasks @@ (tid :> NewTask(body))
               /\ response' = Response(201, {}, {NewTask(body)})
    /\ UNCHANGED <<users, tokens, boards, comments, boardSeq, commentSeq, clock, parked, request>>

\* TaskDetailUpdateDestroyView.get_object: 403 unless owner or member of task.board
TaskAccessDenied(u, t) ==
    ~(boards[tasks[t].board].owner = u \/ u \in boards[tasks[t].board].members)

\* GET /api/tasks/{task_id}/
GetTask ==
    /\ Pending("getTask")
    /\ LET u == request.user
           t == request.id
       IN response' = IF t \notin DOMAIN tasks THEN Response(404, {}, {})
                      ELSE IF TaskAccessDenied(u, t) THEN Response(403, {}, {})
                      ELSE Response(200, {}, {tasks[t]})
    /\ UNCHANGED <<db, parked, request>>

\* TaskDetailUpdateDestroyView.update: `if "board" in request.data`
BoardKeyRejectedUnchecked(body) == FALSE
BoardKeyRejected(body) == body.board # Absent

\* TaskDetailUpdateDestroyView.get_serializer_class
TaskSerializerClass(method) ==
    IF method = "PATCH" THEN "TaskUpdateSerializer" ELSE "TaskDetailSerializer"

\* Python: `assignee_id in ("", False)`; the field has made the value an int, and
\* 0 == False
InEmptyOrFalse(n) == n = 0

\* TaskUpdateSerializer.validate, one id: what becomes of the reference
UpdateIdCheck(p, b) ==
    IF p = <<>> THEN "skip"
    ELSE IF InEmptyOrFalse(p[1]) THEN "clear"
    ELSE IF p[1] \notin DOMAIN users THEN "not_found"
    ELSE IF ~UserOnBoard(p[1], b) THEN "not_member"
    ELSE "set"

\* TaskUpdateSerializer field validation (partial: absent keys are skipped)
TaskUpdateFieldErrors(body) ==
    (IF IntegerFieldInvalid(body.assignee_id) THEN {"assignee_id"} ELSE {})
    \cup (IF IntegerFieldInvalid(body.reviewer_id) THEN {"reviewer_id"} ELSE {})

\* TaskUpdateSerializer.validate: the first failing id raises, assignee first
TaskUpdateValidateErrors(body, b) ==
    IF UpdateIdCheck(Popped(body.assignee_id), b) \in {"not_found", "not_member"}
    THEN {"assignee_id"}
    ELSE IF UpdateIdCheck(Popped(body.reviewer_id), b) \in {"not_found", "not_member"}
    THEN {"reviewer_id"}
    ELSE {}

\* a reference after ModelSerializer.update applied validate()'s attrs
UpdatedRef(old, p, b) ==
    CASE UpdateIdCheck(p, b) = "clear" -> None
      [] UpdateIdCheck(p, b) = "set" -> p[1]
      [] OTHER -> old

\* the task row after serializer.save(); TaskDetailSerializer (PUT) is read-only
UpdatedTask(method, t, body) ==
    LET old == tasks[t]
    IN IF TaskSerializerClass(method) = "TaskUpdateSerializer"
       THEN [old EXCEPT
               !.title = IF body.title # Absent THEN body.title[1] ELSE @,
               !.status = IF body.status # Absent THEN body.status[1] ELSE @,
               !.priority = IF body.priority # Absent THEN body.priority[1] ELSE @,
               !.assignee = UpdatedRef(@, Popped(body.assignee_id), old.board),
               !.reviewer = UpdatedRef(@, Popped(body.reviewer_id), old.board)]
       ELSE old

\* PATCH and PUT /api/tasks/{task_id}/
UpdateTask ==
    /\ Pending("updateTask")
    /\ LET m == request.method
           u == request.user
           t == request.id
           body == request.body
           errs == IF TaskSerializerClass(m) # "TaskUpdateSerializer" THEN {}
                   ELSE IF TaskUpdateFieldErrors(body) # {}
                   THEN TaskUpdateFieldErrors(body)
                   ELSE TaskUpdateValidateErrors(body, tasks[t].board)
       IN IF BoardKeyRejected(body)
          THEN /\ tasks' = tasks
               /\ response' = Response(400, {"board"}, {})
          ELSE IF t \notin DOMAIN tasks
          THEN /\ tasks' = tasks
               /\ response' = Response(404, {}, {})
          ELSE IF TaskAccessDenied(u, t)
          THEN /\ tasks' = tasks
               /\ response' = Response(403, {}, {})
          ELSE IF errs # {}
          THEN /\ tasks' = tasks
               /\ response' = Response(400, errs, {})
          ELSE /\ tasks' = [tasks EXCEPT ![t] = UpdatedTask(m, t, body)]
               /\ response' = Response(200, {}, {UpdatedTask(m, t, body)})
    /\ UNCHANGED <<users, tokens, boards, comments, boardSeq, taskSeq, commentSeq, clock, parked, request>>

\* DELETE /api/tasks/{task_id}/  (DestroyModelMixin.destroy over get_object)
DeleteTask ==
    /\ Pending("deleteTask")
    /\ LET u == request.user
           t == request.id
       IN IF t \notin DOMAIN tasks
          THEN /\ response' = Response(404, {}, {})
               /\ UNCHANGED <<tasks, comments>>
          ELSE IF TaskAccessDenied(u, t)
          THEN /\ response' = Response(403, {}, {})
               /\ UNCHANGED <<tasks, comments>>
          ELSE /\ tasks' = Without(tasks, {t})
               /\ comments' = Without(comments, CommentsOf({t}))
               /\ response' = Response(204, {}, {})
    /\ UNCHANGED <<users, tokens, boards, boardSeq, taskSeq, commentSeq, clock, parked, request>>

\* TaskReviewingListView.get_queryset: Task.objects.filter(reviewer=user)
ReviewedBy(u) == {t \in DOMAIN tasks : tasks[t].reviewer = u}
\* TaskAssignedToMeListView.get_queryset: Task.objects.filter(assignee=user)
AssignedTo(u) == {t \in DOMAIN tasks : tasks[t].assignee = u}

\* GET /api/tasks/reviewing/  (ListModelMixin.list over get_queryset, .order_by("id"))
ListReviewing ==
    /\ Pending("listReviewing")
    /\ LET ids == ReviewedBy(request.user)
       IN response' = Listed(ids, OrderBy(ids, {p \in ids \X ids : p[1] < p[2]}))
    /\ UNCHANGED <<db, parked, request>>

\* GET /api/tasks/assigned-to-me/
ListAssignedToMe ==
    /\ Pending("listAssignedToMe")
    /\ LET ids == AssignedTo(request.user)
       IN response' = Listed(ids, OrderBy(ids, {p \in ids \X ids : p[1] < p[2]}))
    /\ UNCHANGED <<db, parked, request>>

\* ---------------------------------------------------------------- comments
\* CommentListCreateView._enforce_membership
CommentAccessDenied(u, t) ==
    ~(boards[tasks[t].board].owner = u \/ u \in boards[tasks[t].board].members)

\* Comment.Meta.ordering = ["created_at", "id"]
CommentBeforeNewestFirst(c, d) ==
    \/ comments[c].created_at > comments[d].created_at
    \/ comments[c].created_at = comments[d].created_at /\ c > d
CommentBefore(c, d) ==
    \/ comments[c].created_at < comments[d].created_at
    \/ comments[c].created_at = comments[d].created_at /\ c < d

\* GET /api/tasks/{task_id}/comments/  (ListModelMixin.list over get_queryset:
\* Comment.objects.filter(task=task), in the model's ordering)
ListComments ==
    /\ Pending("listComments")
    /\ LET u == request.user
           t == request.id
       IN response' = IF t \notin DOMAIN tasks THEN Response(404, {}, {})
                      ELSE IF CommentAccessDenied(u, t) THEN Response(403, {}, {})
                      ELSE Listed(CommentsOf({t}),
                                  OrderBy(CommentsOf({t}),
                                          {p \in CommentsOf({t}) \X CommentsOf({t}) :
                                              CommentBefore(p[1], p[2])}))
    /\ UNCHANGED <<db, parked, request>>

\* CharField (trim_whitespace) and CommentSerializer.validate_content
ContentInvalid(c) == c = Absent \/ c[1] \in {"", " "}

\* timezone.now() read by auto_now_add: the clock has not gone back since it was
\* last read
Now == {t \in {clock, clock + 1} : t <= MaxClock}

\* POST /api/tasks/{task_id}/comments/
\* (CreateModelMixin.create: is_valid, then perform_create)
CreateComment ==
    /\ Pending("createComment")
    /\ LET u == request.user
           t == request.id
           cid == commentSeq + 1
       IN IF ContentInvalid(request.body.content)
          THEN /\ UNCHANGED <<comments, commentSeq, clock>>
               /\ response' = Response(400, {"content"}, {})
          ELSE IF t \notin DOMAIN tasks
          THEN /\ UNCHANGED <<comments, commentSeq, clock>>
               /\ response' = Response(404, {}, {})
          ELSE IF CommentAccessDenied(u, t)
          THEN /\ UNCHANGED <<comments, commentSeq, clock>>
               /\ response' = Response(403, {}, {})
          ELSE \E now \in Now :
               /\ commentSeq' = cid
               /\ clock' = now
               /\ comments' = comments @@
                     (cid :> [task |-> t, author |-> u,
                              content |-> request.body.content[1], created_at |-> now])
               /\ response' = Response(201, {}, {cid})
    /\ UNCHANGED <<users, tokens, boards, tasks, boardSeq, taskSeq, parked, request>>

\* CommentDetailDestroyView.get_queryset: the comments of the task in the URL
CommentDetailQuerysetAll(t) == DOMAIN comments
CommentDetailQueryset(t) == {c \in DOMAIN comments : comments[c].task = t}

\* GET /api/tasks/{task_id}/comments/{comment_id}/
\* (get_object: the task or 404, the comment among its comments or 404; the
\* caller is not looked at)
GetComment ==
    /\ Pending("getComment")
    /\ LET u == request.user
           t == request.id
           c == request.cid
       IN response' = IF t \notin DOMAIN tasks THEN Response(404, {}, {})
                      ELSE IF c \notin CommentDetailQueryset(t) THEN Response(404, {}, {})
                      ELSE Response(200, {}, {comments[c]})
    /\ UNCHANGED <<db, parked, request>>

\* DELETE /api/tasks/{task_id}/comments/{comment_id}/
DeleteComment ==
    /\ Pending("deleteComment")
    /\ LET u == request.user
           t == request.id
           c == request.cid
       IN IF t \notin DOMAIN tasks \/ c \notin CommentDetailQueryset(t)
          THEN /\ comments' = comments
               /\ response' = Response(404, {}, {})
          ELSE /\ comments' = Without(comments, {c})
               /\ response' = Response(204, {}, {})
    /\ UNCHANGED <<users, tokens, boards, tasks, boardSeq, taskSeq, commentSeq, clock, parked, request>>

\* ------------------------------------------------------- requests received
\* ids a client may put in a URL or a payload
UserIdInputs == 0..MaxUsers
BoardIdInputs == 1..MaxBoards
TaskIdInputs == 1..MaxTasks
CommentIdInputs == 1..MaxComments

Titles == {"A", "B"}
TitleInputs == {Absent} \cup {<<t>> : t \in Titles}
MemberLists ==
    {<<>>} \cup {<<i>> : i \in UserIdInputs}
    \cup {<<i, j>> : i \in 1..MaxUsers, j \in 1..MaxUsers}
MemberInputs == {Absent} \cup {<<l>> : l \in MemberLists}
\* payloads of the board routes: every member list with a title, every title
\* without a list, and some payloads that fail validation
BoardCreateBodies ==
    {[title |-> <<"A">>, members |-> m] : m \in MemberInputs}
    \cup {[title |-> Absent, members |-> m] : m \in {Absent, << <<0>> >>}}
BoardPatchBodies ==
    {[title |-> t, members |-> Absent] : t \in TitleInputs}
    \cup {[title |-> Absent, members |-> m] : m \in MemberInputs}
    \cup {[title |-> <<"B">>, members |-> m] : m \in {<< <<>> >>, << <<0>> >>}}
BoardPutBodies ==
    {[title |-> <<"B">>, members |-> Absent], [title |-> <<"A">>, members |-> << <<>> >>],
     [title |-> Absent, members |-> << <<1>> >>]}

\* the addresses registered: the next unused one of EmailOrder, or a re-spelling
\* of one already registered
RegisterEmails ==
    {EmailOrder[Len(users) + 1]} \cup {CaseVariant(users[u].email) : u \in DOMAIN users}
RegisterRequests ==
    {Request("register", "POST", None, 0, 0,
             [email |-> e, password |-> p[1], repeated_password |-> p[2]]) :
        e \in RegisterEmails, p \in PasswordPairs}

\* logins: with a registered address as stored or re-spelled, or with an address
\* nobody registered
LoginEmails ==
    {users[u].email : u \in DOMAIN users}
    \cup {CaseVariant(users[u].email) : u \in DOMAIN users}
    \cup {EmailOrder[Len(users) + 1]}
LoginPasswords == {"secret123", "secret123 ", "secret124"}
LoginRequests ==
    {Request("login", "POST", None, 0, 0, [email |-> e, password |-> p]) :
        e \in LoginEmails, p \in LoginPasswords}

BoardRequests ==
    {Request("listBoards", "GET", u, 0, 0, NoBody) : u \in DOMAIN users}
    \cup {Request("createBoard", "POST", u, 0, 0, b) :
        u \in DOMAIN users, b \in BoardCreateBodies}
    \cup {Request("getBoard", "GET", u, b, 0, NoBody) :
            u \in DOMAIN users, b \in BoardIdInputs}
    \cup {Request("updateBoard", "PATCH", u, b, 0, body) :
            u \in DOMAIN users, b \in BoardIdInputs, body \in BoardPatchBodies}
    \cup {Request("updateBoard", "PUT", u, b, 0, body) :
            u \in DOMAIN users, b \in BoardIdInputs, body \in BoardPutBodies}
    \cup {Request("deleteBoard", "DELETE", u, b, 0, NoBody) :
            u \in DOMAIN users, b \in BoardIdInputs}

\* id fields as clients send them
IdRaws == {RawAbsent, RawNull, RawEmpty, RawFalse} \cup {RawInt(i) : i \in UserIdInputs}
\* (assignee_id, reviewer_id): one of them at a time, or two integers
IdPairs ==
    {<<a, RawAbsent>> : a \in IdRaws} \cup {<<RawAbsent, r>> : r \in IdRaws}
    \cup {<<RawInt(i), RawInt(j)>> : i \in UserIdInputs, j \in UserIdInputs}
BoardKeyInputs == {Absent} \cup {<<b>> : b \in BoardIdInputs}

TaskBody(board, title, status, priority, ids) ==
    [board |-> board, title |-> title, status |-> status, priority |-> priority,
     assignee_id |-> ids[1], reviewer_id |-> ids[2]]

TaskCreateBodies ==
    {TaskBody(<<b>>, <<"T">>, <<"to-do">>, <<"high">>, p) :
        b \in BoardIdInputs, p \in IdPairs}
    \cup {TaskBody(b, <<"T">>, <<"done">>, <<"low">>, <<RawAbsent, RawAbsent>>) :
            b \in BoardKeyInputs}
    \cup {TaskBody(b, Absent, <<"to-do">>, Absent, <<RawInt(0), RawEmpty>>) :
            b \in BoardKeyInputs}

TaskUpdateBodies ==
    {TaskBody(Absent, Absent, Absent, Absent, p) : p \in IdPairs}
    \cup {TaskBody(Absent, Absent, s, Absent, <<RawAbsent, RawAbsent>>) :
            s \in {<<"to-do">>, <<"done">>}}
    \cup {TaskBody(Absent, Absent, Absent, pr, <<RawAbsent, RawAbsent>>) :
            pr \in {<<"high">>, <<"low">>}}
    \cup {TaskBody(b, Absent, <<"done">>, Absent, p) :
            b \in BoardKeyInputs \ {Absent},
            p \in {<<RawAbsent, RawAbsent>>, <<RawInt(0), RawAbsent>>}}

TaskRequests ==
    {Request("createTask", "POST", u, 0, 0, body) :
        u \in DOMAIN users, body \in TaskCreateBodies}
    \cup {Request("getTask", "GET", u, t, 0, NoBody) :
            u \in DOMAIN users, t \in TaskIdInputs}
    \cup {Request("updateTask", "PATCH", u, t, 0, body) :
            u \in DOMAIN users, t \in TaskIdInputs, body \in TaskUpdateBodies}
    \cup {Request("updateTask", "PUT", u, t, 0,
                  TaskBody(Absent, Absent, <<"done">>, Absent, <<RawInt(0), RawAbsent>>)) :
            u \in DOMAIN users, t \in TaskIdInputs}
    \cup {Request("deleteTask", "DELETE", u, t, 0, NoBody) :
            u \in DOMAIN users, t \in TaskIdInputs}
    \cup {Request(op, "GET", u, 0, 0, NoBody) :
            op \in {"listReviewing", "listAssignedToMe"}, u \in DOMAIN users}

ContentInputs == {Absent, <<" ">>, <<"hi">>}
CommentRequests ==
    {Request("listComments", "GET", u, t, 0, NoBody) :
        u \in DOMAIN users, t \in TaskIdInputs}
    \cup {Request("createComment", "POST", u, t, 0, [content |-> c]) :
            u \in DOMAIN users, t \in TaskIdInputs, c \in ContentInputs}
    \cup {Request(op, IF op = "getComment" THEN "GET" ELSE "DELETE", u, t, c, NoBody) :
            op \in {"getComment", "deleteComment"}, u \in DOMAIN users,
            t \in TaskIdInputs, c \in CommentIdInputs}

\* would the handler insert a row?  (the store's sequences are bounded)
Inserts(r) ==
    CASE r.op = "register" -> RegistrationErrors(r.body) = {}
      [] r.op = "createBoard" -> BoardCreateErrors(r.body) = {}
      [] r.op = "createTask" ->
            /\ r.body.board # Absent
            /\ r.body.board[1] \in DOMAIN boards
            /\ ~CreateTaskDenied(r.user, r.body.board[1])
            /\ TaskCreateFieldErrors(r.body) = {}
            /\ TaskCreateValidateErrors(r.body, r.body.board[1]) = {}
      [] r.op = "createComment" ->
            /\ ~ContentInvalid(r.body.content)
            /\ r.id \in DOMAIN tasks
            /\ ~CommentAccessDenied(r.user, r.id)
      [] OTHER -> FALSE

\* a request is received only if the bounded store can serve it
Within(r, maxUsers, maxBoards, maxTasks, maxComments) ==
    Inserts(r) =>
        CASE r.op = "register" -> Len(users) < maxUsers
          [] r.op = "createBoard" -> boardSeq < maxBoards
          [] r.op = "createTask" -> taskSeq < maxTasks
          [] r.op = "createComment" -> commentSeq < maxComments
WithinBounds(r) == Within(r, MaxUsers, MaxBoards, MaxTasks, MaxComments)

Requests ==
    RegisterRequests \cup LoginRequests \cup BoardRequests \cup TaskRequests
    \cup CommentRequests

\* a client's request arrives; callers of the board, task and comment routes are
\* authenticated users (permission_classes = [IsAuthenticated])
Receive ==
    /\ request = NoRequest
    /\ \E r \in Requests : WithinBounds(r) /\ request' = r
    /\ UNCHANGED <<db, parked, response>>

\* the response is sent and the request is over
Deliver ==
    /\ response # NoResponse
    /\ request' = NoRequest
    /\ response' = NoResponse
    /\ UNCHANGED <<db, parked>>

Next ==
    \/ Receive
    \/ Register
    \/ Login
    \/ ListBoards
    \/ CreateBoard
    \/ GetBoard
    \/ UpdateBoard
    \/ DeleteBoard
    \/ CreateTask
    \/ GetTask
    \/ UpdateTask
    \/ DeleteTask
    \/ ListReviewing
    \/ ListAssignedToMe
    \/ ListComments
    \/ CreateComment
    \/ GetComment
    \/ DeleteComment
    \/ Deliver

Spec == Init /\ [][Next]_vars

\* ------------------------------------------- registration and login only
\* every spelling of an address
Spellings(e) == {e, CaseVariant(e), DomainVariant(e)}
\* the next unused address and the addresses registered, in every spelling
AuthEmails ==
    UNION {Spellings(EmailOrder[i]) : i \in 1..(Len(users) + 1)}
AuthRequests ==
    {Request("register", "POST", None, 0, 0,
             [email |-> e, password |-> p[1], repeated_password |-> p[2]]) :
        e \in AuthEmails, p \in PasswordPairs}
    \cup {Request("login", "POST", None, 0, 0, [email |-> e, password |-> p]) :
            e \in AuthEmails, p \in LoginPasswords}

ReceiveAuth ==
    /\ request = NoRequest
    /\ \E r \in AuthRequests : WithinBounds(r) /\ request' = r
    /\ UNCHANGED <<db, parked, response>>

NextAuth ==
    \/ ReceiveAuth
    \/ Register
    \/ Login
    \/ Deliver

SpecAuth == Init /\ [][NextAuth]_vars

\* ------------------------------------- registrations of two workers at once
\* a registration is received while the store has room for it and for the one
\* the other worker holds
ReceiveRace ==
    /\ request = NoRequest
    /\ \E r \in AuthRequests :
          /\ Inserts(r) => Len(users) + (IF parked = NoRequest THEN 0 ELSE 1) < MaxUsers
          /\ request' = r
    /\ UNCHANGED <<db, parked, response>>

NextRace ==
    \/ ReceiveRace
    \/ Register
    \/ RegisterValidated
    \/ RegisterSaved
    \/ Login
    \/ Deliver

SpecRace == Init /\ [][NextRace]_vars

\* ------------------------------------------------ comment threads only
\* user 1 registers, creates a board and tasks on it, and comments
ThreadRequests ==
    {Request("register", "POST", None, 0, 0,
             [email |-> EmailOrder[Len(users) + 1], password |-> "secret123",
              repeated_password |-> "secret123"]),
     Request("createBoard", "POST", 1, 0, 0, [title |-> <<"A">>, members |-> Absent]),
     Request("createTask", "POST", 1, 0, 0,
             TaskBody(<<1>>, <<"T">>, <<"to-do">>, <<"high">>, <<RawAbsent, RawAbsent>>))}
    \cup {Request("listComments", "GET", 1, t, 0, NoBody) : t \in 1..MaxThreadTasks}
    \cup {Request("createComment", "POST", 1, t, 0, [content |-> <<"hi">>]) :
            t \in 1..MaxThreadTasks}
    \cup {Request(op, IF op = "getComment" THEN "GET" ELSE "DELETE", 1, t, c, NoBody) :
            op \in {"getComment", "deleteComment"}, t \in 1..MaxThreadTasks,
            c \in 1..MaxThreadComments}

ReceiveThread ==
    /\ request = NoRequest
    /\ \E r \in ThreadRequests :
          /\ r.user \in DOMAIN users \cup {None}
          /\ Within(r, 1, 1, MaxThreadTasks, MaxThreadComments)
          /\ request' = r
    /\ UNCHANGED <<db, parked, response>>

NextThreads ==
    \/ ReceiveThread
    \/ Register
    \/ CreateBoard
    \/ CreateTask
    \/ ListComments
    \/ CreateComment
    \/ GetComment
    \/ DeleteComment
    \/ Deliver

SpecThreads == Init /\ [][NextThreads]_vars

\* -------------------------------------------- several boards and tasks
ListMemberInputs == {Absent, << <<>> >>, << <<2>> >>, << <<1, 2>> >>}
ListTaskFields == {<<"to-do", "high">>, <<"to-do", "low">>, <<"done", "high">>}
ListRequests ==
    {Request("register", "POST", None, 0, 0,
             [email |-> EmailOrder[Len(users) + 1], password |-> "secret123",
              repeated_password |-> "secret123"])}
    \cup {Request("listBoards", "GET", u, 0, 0, NoBody) : u \in DOMAIN users}
    \cup {Request("createBoard", "POST", u, 0, 0, [title |-> <<"A">>, members |-> m]) :
            u \in DOMAIN users, m \in ListMemberInputs}
    \cup {Request("updateBoard", "PATCH", boards[b].owner, b, 0,
                  [title |-> Absent, members |-> m]) :
            b \in DOMAIN boards, m \in ListMemberInputs \ {Absent}}
    \cup {Request("deleteBoard", "DELETE", boards[b].owner, b, 0, NoBody) :
            b \in DOMAIN boards}
    \cup {Request("createTask", "POST", boards[b].owner, 0, 0,
                  TaskBody(<<b>>, <<"T">>, <<f[1]>>, <<f[2]>>, <<RawAbsent, RawAbsent>>)) :
            b \in DOMAIN boards, f \in ListTaskFields}
    \cup {Request("updateTask", "PATCH", boards[tasks[t].board].owner, t, 0,
                  TaskBody(Absent, Absent, <<f[1]>>, <<f[2]>>, <<RawAbsent, RawAbsent>>)) :
            t \in DOMAIN tasks, f \in ListTaskFields}
    \cup {Request("deleteTask", "DELETE", boards[tasks[t].board].owner, t, 0, NoBody) :
            t \in DOMAIN tasks}
    \cup {Request("createComment", "POST", boards[tasks[t].board].owner, t, 0,
                  [content |-> <<"hi">>]) :
            t \in DOMAIN tasks}

ReceiveList ==
    /\ request = NoRequest
    /\ \E r \in ListRequests :
          /\ Within(r, MaxUsers, MaxListBoards, MaxListTasks, MaxListComments)
          /\ request' = r
    /\ UNCHANGED <<db, parked, response>>

NextLists ==
    \/ ReceiveList
    \/ Register
    \/ ListBoards
    \/ CreateBoard
    \/ UpdateBoard
    \/ DeleteBoard
    \/ CreateTask
    \/ UpdateTask
    \/ DeleteTask
    \/ CreateComment
    \/ Deliver

SpecLists == Init /\ [][NextLists]_vars

\* ------------------------------------- requests of two workers interleaved
\* The handlers run their queries in autocommit: no view or serializer opens a
\* transaction or locks a row.  A second worker's request is `parked` between
\* two of its queries while the first worker's requests are served.

\* TaskCreateView.create up to serializer.is_valid(): the board exists, the
\* caller and the ids of the payload are on it; perform_create runs later
CreateTaskChecked ==
    /\ Pending("createTask")
    /\ parked = NoRequest
    /\ request.body.board # Absent
    /\ request.body.board[1] \in DOMAIN boards
    /\ ~CreateTaskDenied(request.user, request.body.board[1])
    /\ TaskCreateFieldErrors(request.body) = {}
    /\ TaskCreateValidateErrors(request.body, request.body.board[1]) = {}
    /\ parked' = request
    /\ request' = NoRequest
    /\ UNCHANGED <<db, response>>

\* ... and perform_create: serializer.save() inserts the validated row
CreateTaskSaved ==
    /\ parked.op = "createTask"
    /\ taskSeq' = taskSeq + 1
    /\ tasks' = tasks @@ ((taskSeq + 1) :> NewTask(parked.body))
    /\ parked' = NoRequest
    /\ UNCHANGED <<users, tokens, boards, comments, boardSeq, commentSeq, clock,
                   request, response>>

\* TaskDetailUpdateDestroyView.update up to serializer.is_valid(): get_object
\* found the task and the caller on its board, validate() accepted the ids;
\* the instance and the validated attrs are in the worker's memory
UpdateTaskChecked ==
    /\ Pending("updateTask")
    /\ parked = NoRequest
    /\ ~BoardKeyRejected(request.body)
    /\ request.id \in DOMAIN tasks
    /\ ~TaskAccessDenied(request.user, request.id)
    /\ TaskSerializerClass(request.method) = "TaskUpdateSerializer"
    /\ TaskUpdateFieldErrors(request.body) = {}
    /\ TaskUpdateValidateErrors(request.body, tasks[request.id].board) = {}
    /\ parked' = [request EXCEPT
                    !.body = [row |-> UpdatedTask(request.method, request.id, request.body)]]
    /\ request' = NoRequest
    /\ UNCHANGED <<db, response>>

\* ... and perform_update: serializer.save() writes the instance back
UpdateTaskSaved ==
    /\ parked.op = "updateTask"
    /\ tasks' = [tasks EXCEPT ![parked.id] = parked.body.row]
    /\ parked' = NoRequest
    /\ UNCHANGED <<users, tokens, boards, comments, boardSeq, taskSeq, commentSeq, clock,
                   request, response>>

\* CommentListCreateView.perform_create up to _enforce_membership(task)
CreateCommentChecked ==
    /\ Pending("createComment")
    /\ parked = NoRequest
    /\ ~ContentInvalid(request.body.content)
    /\ request.id \in DOMAIN tasks
    /\ ~CommentAccessDenied(request.user, request.id)
    /\ parked' = request
    /\ request' = NoRequest
    /\ UNCHANGED <<db, response>>

\* ... and serializer.save(task=task, author=self.request.user)
CreateCommentSaved ==
    /\ parked.op = "createComment"
    /\ \E now \in Now :
          /\ clock' = now
          /\ comments' = comments @@
                ((commentSeq + 1) :> [task |-> parked.id, author |-> parked.user,
                                      content |-> parked.body.content[1],
                                      created_at |-> now])
    /\ commentSeq' = commentSeq + 1
    /\ parked' = NoRequest
    /\ UNCHANGED <<users, tokens, boards, tasks, boardSeq, taskSeq, request, response>>

\* BoardCreateSerializer.create up to Board.objects.create(...): the row is
\* stored without members; `if member_ids:` has members to set
CreateBoardRowInserted ==
    /\ Pending("createBoard")
    /\ parked = NoRequest
    /\ BoardCreateErrors(request.body) = {}
    /\ request.body.members # Absent
    /\ MemberSet(request.body.members) # {}
    /\ boardSeq' = boardSeq + 1
    /\ boards' = boards @@ ((boardSeq + 1) :>
                              [title |-> request.body.title[1], owner |-> request.user,
                               members |-> {}])
    /\ parked' = [request EXCEPT !.id = boardSeq + 1]
    /\ request' = NoRequest
    /\ UNCHANGED <<users, tokens, tasks, comments, taskSeq, commentSeq, clock, response>>

\* ... and board.members.set(...)
CreateBoardMembersSet ==
    /\ parked.op = "createBoard"
    /\ boards' = [boards EXCEPT ![parked.id].members = MemberSet(parked.body.members)]
    /\ parked' = NoRequest
    /\ UNCHANGED <<users, tokens, tasks, comments, boardSeq, taskSeq, commentSeq, clock,
                   request, response>>

\* BoardMembersUpdateSerializer.update up to instance.save(update_fields=["title"]),
\* of a PATCH that carries both keys
UpdateBoardTitleSaved ==
    /\ Pending("updateBoard")
    /\ parked = NoRequest
    /\ request.id \in DOMAIN boards
    /\ ~BoardAccessDenied(request.method, request.user, request.id)
    /\ BoardSerializerClass(request.method) = "BoardMembersUpdateSerializer"
    /\ ~MembersInvalid(request.body.members)
    /\ request.body.title # Absent
    /\ request.body.members # Absent
    /\ boards' = [boards EXCEPT ![request.id].title = request.body.title[1]]
    /\ parked' = request
    /\ request' = NoRequest
    /\ UNCHANGED <<users, tokens, tasks, comments, boardSeq, taskSeq, commentSeq, clock,
                   response>>

\* ... and instance.members.set(users)
UpdateBoardMembersSet ==
    /\ parked.op = "updateBoard"
    /\ boards' = [boards EXCEPT ![parked.id].members = MemberSet(parked.body.members)]
    /\ parked' = NoRequest
    /\ UNCHANGED <<users, tokens, tasks, comments, boardSeq, taskSeq, commentSeq, clock,
                   request, response>>

GapRequests ==
    {Request("register", "POST", None, 0, 0,
             [email |-> EmailOrder[Len(users) + 1], password |-> "secret123",
              repeated_password |-> "secret123"])}
    \cup {Request("createBoard", "POST", u, 0, 0, [title |-> <<"A">>, members |-> m]) :
            u \in DOMAIN users, m \in {Absent, << <<2>> >>}}
    \cup {Request("getBoard", "GET", u, b, 0, NoBody) :
            u \in DOMAIN users, b \in BoardIdInputs}
    \cup {Request("updateBoard", "PATCH", u, b, 0, [title |-> t, members |-> m]) :
            u \in DOMAIN users, b \in BoardIdInputs, t \in {Absent, <<"B">>},
            m \in {<< <<>> >>, << <<2>> >>}}
    \cup {Request("createTask", "POST", u, 0, 0,
                  TaskBody(<<b>>, <<"T">>, <<"to-do">>, <<"high">>, <<a, RawAbsent>>)) :
            u \in DOMAIN users, b \in BoardIdInputs, a \in {RawAbsent, RawInt(2)}}
    \cup {Request("updateTask", "PATCH", u, t, 0,
                  TaskBody(Absent, Absent, Absent, Absent, <<RawAbsent, RawInt(2)>>)) :
            u \in DOMAIN users, t \in TaskIdInputs}
    \cup {Request("createComment", "POST", u, t, 0, [content |-> c]) :
            u \in DOMAIN users, t \in TaskIdInputs, c \in {<<" ">>, <<"hi">>}}

\* the rows the parked request is still to insert count against the bounds
ReceiveGap ==
    /\ request = NoRequest
    /\ \E r \in GapRequests :
          /\ r.op = "register" => Len(users) < MaxUsers
          /\ r.op = "createBoard" => boardSeq < MaxBoards
          /\ r.op = "createTask" =>
                taskSeq + (IF parked.op = "createTask" THEN 1 ELSE 0) < MaxTasks
          /\ r.op = "createComment" =>
                commentSeq + (IF parked.op = "createComment" THEN 1 ELSE 0) < MaxComments
          /\ request' = r
    /\ UNCHANGED <<db, parked, response>>

NextGap ==
    \/ ReceiveGap
    \/ Register
    \/ CreateBoard
    \/ CreateBoardRowInserted
    \/ CreateBoardMembersSet
    \/ GetBoard
    \/ UpdateBoard
    \/ UpdateBoardTitleSaved
    \/ UpdateBoardMembersSet
    \/ CreateTask
    \/ CreateTaskChecked
    \/ CreateTaskSaved
    \/ UpdateTask
    \/ UpdateTaskChecked
    \/ UpdateTaskSaved
    \/ CreateComment
    \/ CreateCommentChecked
    \/ CreateCommentSaved
    \/ Deliver

SpecGap == Init /\ [][NextGap]_vars

\* ------------------------------------------------------------------ claims
\* the handler of route `op` serves the request in flight in this step
Serves(op) == Pending(op) /\ response' # NoResponse
\* the request in flight, of route `op`, has been served
Served(op) == request.op = op /\ response # NoResponse

\* u is the owner of board b or in its member set (b an existing board)
OwnerOrMember(u, b) == u = boards[b].owner \/ u \in boards[b].members
\* an id that names no existing user, or a user who is neither owner nor member
NamesNoBoardUser(raw, b) ==
    raw.t = "int" /\ (raw.v \notin DOMAIN users \/ ~OwnerOrMember(raw.v, b))

\* C1: GET and PATCH of an existing board by a user who is neither its owner nor
\* a member answer 403 and change nothing in the store; they answer 404 exactly
\* when no board has the id.
C1_BoardGate ==
    [][(Serves("getBoard") \/ (Serves("updateBoard") /\ request.method = "PATCH"))
       => /\ (request.id \in DOMAIN boards /\ ~OwnerOrMember(request.user, request.id))
                => (response'.status = 403 /\ UNCHANGED db)
          /\ (response'.status = 404) <=> (request.id \notin DOMAIN boards)]_vars

C1_Witness ==
    /\ Served("updateBoard") /\ request.method = "PATCH"
    /\ request.body.title # Absent /\ request.body.members = Absent
    /\ request.id \in DOMAIN boards
    /\ ~OwnerOrMember(request.user, request.id)
    /\ response.status = 403

\* C2: DELETE of an existing board removes it if and only if the caller is its
\* owner; any other caller, its members included, gets 403 and the board, its
\* members, its tasks and their comments stay as they were; no other request
\* removes a board.
C2_OnlyOwnerDeletes ==
    [][/\ (Serves("deleteBoard") /\ request.id \in DOMAIN boards)
            => IF request.user = boards[request.id].owner
               THEN response'.status = 204 /\ request.id \notin DOMAIN boards'
               ELSE response'.status = 403 /\ UNCHANGED db
       /\ \A b \in DOMAIN boards \ DOMAIN boards' :
            /\ Serves("deleteBoard")
            /\ request.id = b
            /\ request.user = boards[b].owner]_vars

C2_Witness ==
    /\ Served("deleteBoard")
    /\ response.status = 403
    /\ request.id \in DOMAIN boards
    /\ request.user \in boards[request.id].members
    /\ TasksOf(request.id) # {}
    /\ CommentsOf(TasksOf(request.id)) # {}

\* C3: the title and the member set of a board change only in a request to that
\* board whose caller is then its owner or one of its members.
C3_BoardChangedByOwnerOrMember ==
    [][\A b \in DOMAIN boards \cap DOMAIN boards' :
          boards'[b] # boards[b] => (request.id = b /\ OwnerOrMember(request.user, b))]_vars

\* C4: GET and DELETE of a comment of task t by a user who is neither owner nor
\* member of t's board answer 403, and the comment is neither returned nor deleted.
C4_CommentDetailGate ==
    [][((Serves("getComment") \/ Serves("deleteComment"))
        /\ request.id \in DOMAIN tasks
        /\ request.cid \in CommentsOf({request.id})
        /\ ~OwnerOrMember(request.user, tasks[request.id].board))
       => (response'.status = 403 /\ response'.data = {} /\ comments' = comments)]_vars

\* what the checks of one payload's ids must give on board b
C5_TaskIdsChecked(b, body, fieldErrs) ==
    /\ (NamesNoBoardUser(body.assignee_id, b) \/ NamesNoBoardUser(body.reviewer_id, b))
          => (response'.status = 400 /\ tasks' = tasks)
    /\ (NamesNoBoardUser(body.assignee_id, b) /\ fieldErrs = {})
          => "assignee_id" \in response'.keys
    /\ (NamesNoBoardUser(body.reviewer_id, b) /\ fieldErrs = {}
        /\ ~NamesNoBoardUser(body.assignee_id, b))
          => "reviewer_id" \in response'.keys

\* C5: a createTask or updateTask whose assignee_id (resp. reviewer_id) names no
\* existing user, or a user who is neither owner nor member of the board, is
\* answered 400 and creates or changes no task; in a request that is otherwise
\* valid the 400 names "assignee_id" (resp. "reviewer_id").
C5_ForeignIdsRejected ==
    [][/\ (Serves("createTask")
           /\ request.body.board # Absent
           /\ request.body.board[1] \in DOMAIN boards
           /\ OwnerOrMember(request.user, request.body.board[1]))
          => C5_TaskIdsChecked(request.body.board[1], request.body,
                               TaskCreateFieldErrors(request.body))
       /\ (Serves("updateTask") /\ request.method = "PATCH"
           /\ request.id \in DOMAIN tasks
           /\ OwnerOrMember(request.user, tasks[request.id].board))
          => C5_TaskIdsChecked(tasks[request.id].board, request.body,
                               TaskUpdateFieldErrors(request.body)
                               \cup (IF request.body.board # Absent THEN {"board"} ELSE {}))
      ]_vars

\* what one id of a PATCH must give: the status and the reference afterwards
C6_IdOutcome(raw, b, before, after) ==
    CASE raw.t \in {"empty", "false", "null"} -> response'.status = 200 /\ after = None
      [] raw.t = "int" /\ ~NamesNoBoardUser(raw, b) ->
            response'.status = 200 /\ after = raw.v
      [] raw.t = "int" /\ NamesNoBoardUser(raw, b) ->
            response'.status = 400 /\ after = before
      [] OTHER -> TRUE

\* C6: in a PATCH of a task by an owner or member, assignee_id (resp. reviewer_id)
\* sent as "", false or null leaves the reference null, the id of the owner or of
\* a member sets it, and any other value is answered 400.
C6_ClearingSignals ==
    [][(Serves("updateTask") /\ request.method = "PATCH"
        /\ request.id \in DOMAIN tasks
        /\ OwnerOrMember(request.user, tasks[request.id].board)
        /\ request.body.board = Absent)
       => LET t == request.id
              b == tasks[t].board
          IN /\ t \in DOMAIN tasks'
             /\ request.body.reviewer_id = RawAbsent
                  => C6_IdOutcome(request.body.assignee_id, b,
                                  tasks[t].assignee, tasks'[t].assignee)
             /\ request.body.assignee_id = RawAbsent
                  => C6_IdOutcome(request.body.reviewer_id, b,
                                  tasks[t].reviewer, tasks'[t].reviewer)]_vars

\* C7: a task keeps the board it was created on: createTask stores the board the
\* request names, no request changes the board of an existing task, task ids are
\* not handed out twice, and an update whose payload has the key "board" is
\* answered 400 naming "board" and changes no task.
C7_BoardImmutable ==
    [][/\ \A t \in DOMAIN tasks \cap DOMAIN tasks' : tasks'[t].board = tasks[t].board
       /\ \A t \in DOMAIN tasks' \ DOMAIN tasks :
            /\ Serves("createTask")
            /\ t > taskSeq
            /\ request.body.board = <<tasks'[t].board>>
       /\ (Serves("updateTask") /\ request.body.board # Absent)
            => (response'.status = 400 /\ "board" \in response'.keys /\ tasks' = tasks)
      ]_vars

C7_Witness ==
    /\ Served("updateTask") /\ request.method = "PATCH"
    /\ request.body.board # Absent
    /\ request.body.status # Absent
    /\ request.id \in DOMAIN tasks
    /\ OwnerOrMember(request.user, tasks[request.id].board)
    /\ tasks[request.id].status # request.body.status[1]
    /\ response.status = 400

\* C8: GET, PATCH/PUT and DELETE of a task answer 404 when the task does not exist
\* and 403 when the caller is neither owner nor member of its board, and change
\* nothing; a task is removed only by its board's deletion or by a deleteTask of
\* an owner or member.
C8_TaskGate ==
    [][/\ (Serves("getTask") \/ Serves("updateTask") \/ Serves("deleteTask"))
            => /\ request.id \notin DOMAIN tasks
                    => (response'.status = 404 /\ UNCHANGED db)
               /\ (request.id \in DOMAIN tasks
                   /\ ~OwnerOrMember(request.user, tasks[request.id].board))
                    => (response'.status = 403 /\ response'.data = {} /\ UNCHANGED db)
       /\ \A t \in DOMAIN tasks \ DOMAIN tasks' :
            \/ Serves("deleteBoard") /\ request.id = tasks[t].board
            \/ /\ Serves("deleteTask") /\ request.id = t
               /\ OwnerOrMember(request.user, tasks[t].board)]_vars

\* C9: createTask on a board that does not exist answers 404, by a caller who is
\* neither owner nor member of the board 403, and neither creates a task; every
\* task is created by a createTask of a user who is then owner or member of its
\* board.
C9_CreateTaskGate ==
    [][/\ (Serves("createTask") /\ request.body.board # Absent)
            => LET b == request.body.board[1]
               IN /\ b \notin DOMAIN boards => (response'.status = 404 /\ UNCHANGED db)
                  /\ (b \in DOMAIN boards /\ ~OwnerOrMember(request.user, b))
                        => (response'.status = 403 /\ UNCHANGED db)
       /\ \A t \in DOMAIN tasks' \ DOMAIN tasks :
            /\ Serves("createTask")
            /\ response'.status = 201
            /\ tasks'[t].board \in DOMAIN boards
            /\ OwnerOrMember(request.user, tasks'[t].board)]_vars

C9_Witness ==
    /\ Served("createTask")
    /\ request.body.board # Absent
    /\ request.body.board[1] \in DOMAIN boards
    /\ ~OwnerOrMember(request.user, request.body.board[1])
    /\ TaskCreateFieldErrors(request.body) = {}
    /\ request.body.assignee_id = RawInt(request.user)
    /\ response.status = 403

\* C10: listing and creating comments of a task answer 404 when the task does not
\* exist and 403 when the caller is neither owner nor member of its board; a
\* comment that is created is attached to the task of the request, its author is
\* the caller, and the caller is then owner or member of the task's board.
C10_CommentGate ==
    [][/\ (Serves("listComments") \/ Serves("createComment"))
            => /\ request.id \notin DOMAIN tasks
                    => (response'.status = 404 /\ UNCHANGED db)
               /\ (request.id \in DOMAIN tasks
                   /\ ~OwnerOrMember(request.user, tasks[request.id].board))
                    => (response'.status = 403 /\ response'.data = {} /\ UNCHANGED db)
       /\ \A c \in DOMAIN comments' \ DOMAIN comments :
            /\ Serves("createComment")
            /\ comments'[c].task = request.id
            /\ comments'[c].author = request.user
            /\ OwnerOrMember(request.user, tasks[request.id].board)]_vars

\* the rows of a list response, as a set
RowSet(rows) == {rows[i] : i \in 1..Len(rows)}

\* C11: a listing of task t returns exactly t's comments, each once, ascending by
\* (created_at, id), and that is the order in which they were created: a new
\* comment gets an id above and a created_at not below those of every comment
\* stored, whatever was created or deleted in between.
C11_CommentsInCreationOrder ==
    [][/\ (Serves("listComments") /\ response'.status = 200)
            => LET rows == response'.rows
               IN /\ RowSet(rows) = {c \in DOMAIN comments : comments[c].task = request.id}
                  /\ \A i, j \in 1..Len(rows) : i < j =>
                        /\ rows[i] < rows[j]
                        /\ \/ comments[rows[i]].created_at < comments[rows[j]].created_at
                           \/ /\ comments[rows[i]].created_at = comments[rows[j]].created_at
                              /\ rows[i] < rows[j]
       /\ \A c \in DOMAIN comments' \ DOMAIN comments :
            /\ c > commentSeq
            /\ \A d \in DOMAIN comments :
                 d < c /\ comments[d].created_at <= comments'[c].created_at]_vars

C11_Witness ==
    /\ Served("listComments")
    /\ response.rows = <<1, 3>>
    /\ comments[1].created_at = comments[3].created_at
    /\ 2 \in DOMAIN comments
    /\ comments[2].task # request.id

\* C12: GET and DELETE of comment c under task t answer 200 / 204 only when t
\* exists and c is a comment of t; when the task or the comment does not exist, or
\* the comment is attached to another task, they answer 404 and no comment is
\* deleted; a comment is deleted only by its task's or board's deletion or by a
\* deleteComment that names it under its own task.
C12_CommentOfTask ==
    [][/\ (Serves("getComment") \/ Serves("deleteComment"))
            => IF /\ request.id \in DOMAIN tasks
                  /\ request.cid \in DOMAIN comments
                  /\ comments[request.cid].task = request.id
               THEN response'.status \in {200, 204}
               ELSE response'.status = 404 /\ response'.data = {} /\ UNCHANGED db
       /\ \A c \in DOMAIN comments \ DOMAIN comments' :
            \/ Serves("deleteBoard") \/ Serves("deleteTask")
            \/ /\ Serves("deleteComment")
               /\ request.cid = c
               /\ request.id = comments[c].task]_vars

C12_Witness ==
    /\ Served("deleteComment")
    /\ response.status = 404
    /\ request.id \in DOMAIN tasks
    /\ request.cid \in DOMAIN comments
    /\ comments[request.cid].task # request.id
    /\ CommentsOf({request.id}) # {}

\* two addresses are equal ignoring letter case
SameIgnoringCase(e, f) == Lower(e) = Lower(f)

\* C13: a registration whose email equals, ignoring letter case, the email of a
\* registered user is answered 400 naming "email" and creates neither a user nor
\* a token; after every step no two users have emails equal ignoring case.
C13_NoDuplicateEmail ==
    [][/\ (Serves("register")
           /\ \E u \in DOMAIN users : SameIgnoringCase(users[u].email, request.body.email))
            => /\ response'.status = 400
               /\ "email" \in response'.keys
               /\ UNCHANGED db
       /\ \A u, v \in DOMAIN users' :
            u # v => ~SameIgnoringCase(users'[u].email, users'[v].email)]_vars

\* C14: a registration whose password differs from its repeated_password, or
\* whose password has fewer than 8 characters, is answered 400 and creates
\* neither a user nor a token.
C14_BadPasswordsRejected ==
    [][(Serves("register")
        /\ \/ request.body.password # request.body.repeated_password
           \/ PasswordLen(request.body.password) < 8)
       => (response'.status = 400 /\ users' = users /\ tokens' = tokens)]_vars

\* the token rows of user u
TokensOf(table, u) == {t \in table : t.user = u}

\* C15: after every step each user has at most one token and no two tokens share
\* a key; a successful registration mints the token of the new user and returns
\* it; a successful login mints nothing and returns the token its user already
\* has, so every login of a user returns the token minted at registration.
C15_OneTokenPerUser ==
    [][/\ \A u \in DOMAIN users' : Cardinality(TokensOf(tokens', u)) <= 1
       /\ \A s, t \in tokens' : s.key = t.key => s = t
       /\ tokens \subseteq tokens'
       /\ (Serves("register") /\ response'.status = 201)
            => \E t \in tokens' \ tokens :
                 /\ tokens' = tokens \cup {t}
                 /\ t.user = Len(users')
                 /\ response'.data = {[user_id |-> t.user, token |-> t.key]}
       /\ (Serves("login") /\ response'.status = 200)
            => /\ tokens' = tokens
               /\ \E t \in tokens :
                    /\ users[t.user].email = request.body.email
                    /\ response'.data = {[user_id |-> t.user, token |-> t.key]}]_vars

C15_Witness ==
    /\ Served("login")
    /\ response.status = 200
    /\ Len(users) = 2
    /\ \E t \in tokens : t.user = 1 /\ response.data = {[user_id |-> 1, token |-> t.key]}

\* C16: a listing of boards for user u returns the boards of which u is the
\* owner or a member, no other board, and none of them twice.
C16_ListBoardsExact ==
    [][Serves("listBoards")
       => LET rows == response'.rows
          IN /\ response'.status = 200
             /\ {rows[i].id : i \in 1..Len(rows)}
                  = {b \in DOMAIN boards : OwnerOrMember(request.user, b)}
             /\ \A i, j \in 1..Len(rows) : rows[i].id = rows[j].id => i = j]_vars

C16_Witness ==
    /\ Served("listBoards")
    /\ Len(response.rows) = 1
    /\ \E b \in DOMAIN boards :
         /\ boards[b].owner = request.user
         /\ request.user \in boards[b].members
         /\ Cardinality(boards[b].members) = 2
         /\ Cardinality(TasksOf(b)) = 2
    /\ \E b \in DOMAIN boards : ~OwnerOrMember(request.user, b)

\* the counts a board row must show, from the store
CountsRight(row, members, ts) ==
    /\ row.member_count = Cardinality(members)
    /\ row.ticket_count = Cardinality(ts)
    /\ row.tasks_to_do_count = Cardinality({t \in ts : tasks[t].status = "to-do"})
    /\ row.tasks_high_prio_count = Cardinality({t \in ts : tasks[t].priority = "high"})

\* C17: every board row returned by listBoards or createBoard shows as
\* member_count the size of the board's member set (the owner counted only if
\* listed), as ticket_count the number of its tasks, as tasks_to_do_count and
\* tasks_high_prio_count the number of its tasks with status to-do and with
\* priority high; a board created with members=[] shows 0 members and 0 tasks.
C17_CountsRight ==
    [][/\ Serves("listBoards")
            => \A i \in 1..Len(response'.rows) :
                 LET row == response'.rows[i]
                 IN CountsRight(row, boards[row.id].members,
                                {t \in DOMAIN tasks : tasks[t].board = row.id})
       /\ (Serves("createBoard") /\ response'.status = 201)
            => LET row == response'.rows[1]
               IN /\ CountsRight(row, boards'[row.id].members, {})
                  /\ request.body.members \in {Absent, << <<>> >>}
                        => row.member_count = 0 /\ row.ticket_count = 0]_vars

C17_Witness ==
    /\ Served("listBoards")
    /\ \E i \in 1..Len(response.rows) :
         /\ response.rows[i].member_count = 2
         /\ response.rows[i].ticket_count = 2
         /\ response.rows[i].tasks_to_do_count = 1
         /\ response.rows[i].tasks_high_prio_count = 1
         /\ boards[response.rows[i].id].owner = request.user

\* the ids of a member list of a payload ({} when the key is absent)
GivenIds(m) == IF m = Absent THEN {} ELSE {m[1][i] : i \in 1..Len(m[1])}

\* C18: a createBoard with a title is answered 400 naming "members" and creates
\* no board if one of its member ids names no existing user; otherwise it is
\* answered 201 and adds one board whose owner is the caller and whose member
\* set is the set of the ids given, the caller among them only if listed; no
\* other request adds a board.
C18_CreateBoard ==
    [][/\ (Serves("createBoard") /\ request.body.title # Absent)
            => IF GivenIds(request.body.members) \subseteq DOMAIN users
               THEN /\ response'.status = 201
                    /\ \E b \in DOMAIN boards' \ DOMAIN boards :
                         boards' = boards @@
                            (b :> [title |-> request.body.title[1],
                                   owner |-> request.user,
                                   members |-> GivenIds(request.body.members)])
               ELSE /\ response'.status = 400
                    /\ "members" \in response'.keys
                    /\ UNCHANGED db
       /\ (DOMAIN boards' \ DOMAIN boards # {})
            => (Serves("createBoard") /\ response'.status = 201)]_vars

C18_Witness ==
    /\ Served("createBoard")
    /\ response.status = 201
    /\ request.body.members = << <<2, 2>> >>
    /\ request.user = 1
    /\ \E b \in DOMAIN boards : boards[b].owner = 1 /\ boards[b].members = {2}

\* C19: a PATCH of a board by its owner or a member whose member ids all exist is
\* answered 200; afterwards the member set is the set of the ids given if the
\* key members is present (an empty list empties it) and unchanged if absent, the
\* title is the one given if present and unchanged if absent, and no other board
\* has changed; no updateBoard changes a board's owner, adds or removes a board,
\* or changes a task, and one not answered 200 changes nothing.
C19_PartialUpdate ==
    [][Serves("updateBoard")
       => /\ tasks' = tasks /\ comments' = comments /\ users' = users
          /\ DOMAIN boards' = DOMAIN boards
          /\ \A b \in DOMAIN boards : boards'[b].owner = boards[b].owner
          /\ response'.status # 200 => boards' = boards
          /\ (request.method = "PATCH" /\ request.id \in DOMAIN boards
              /\ OwnerOrMember(request.user, request.id)
              /\ GivenIds(request.body.members) \subseteq DOMAIN users)
               => LET b == request.id
                      body == request.body
                  IN /\ response'.status = 200
                     /\ boards'[b].members = IF body.members # Absent
                                             THEN GivenIds(body.members)
                                             ELSE boards[b].members
                     /\ boards'[b].title = IF body.title # Absent THEN body.title[1]
                                           ELSE boards[b].title
                     /\ \A c \in DOMAIN boards \ {b} : boards'[c] = boards[c]]_vars

C19_Witness ==
    /\ Served("updateBoard") /\ request.method = "PATCH"
    /\ response.status = 200
    /\ request.body.title = Absent
    /\ request.body.members = << <<>> >>
    /\ request.user # boards[request.id].owner
    /\ boards[request.id].members = {}
    /\ boards[request.id].title = "B"
    /\ TasksOf(request.id) # {}

\* C20: after every step every task is on a stored board and every comment on a
\* stored task; a deleteBoard answered 204 removes the board, its tasks and the
\* comments of its tasks and nothing else, and a deleteTask answered 204 removes
\* the task and its comments and nothing else.
C20_ReferentialIntegrity ==
    [][/\ \A t \in DOMAIN tasks' : tasks'[t].board \in DOMAIN boards'
       /\ \A c \in DOMAIN comments' : comments'[c].task \in DOMAIN tasks'
       /\ (Serves("deleteBoard") /\ response'.status = 204)
            => LET gone == {t \in DOMAIN tasks : tasks[t].board = request.id}
               IN /\ boards' = [b \in DOMAIN boards \ {request.id} |-> boards[b]]
                  /\ tasks' = [t \in DOMAIN tasks \ gone |-> tasks[t]]
                  /\ comments' = [c \in {d \in DOMAIN comments : comments[d].task \notin gone}
                                    |-> comments[c]]
       /\ (Serves("deleteTask") /\ response'.status = 204)
            => /\ boards' = boards
               /\ tasks' = [t \in DOMAIN tasks \ {request.id} |-> tasks[t]]
               /\ comments' = [c \in {d \in DOMAIN comments : comments[d].task # request.id}
                                 |-> comments[c]]]_vars

C20_Witness ==
    /\ Served("deleteBoard")
    /\ response.status = 204
    /\ taskSeq = 2 /\ commentSeq = 2
    /\ Cardinality(DOMAIN boards) = 1
    /\ Cardinality(DOMAIN tasks) = 1
    /\ Cardinality(DOMAIN comments) = 1

\* C21: whenever a step sets the assignee or the reviewer of a task to a user x
\* (on a new task, or to another user than before), the step is a createTask or
\* updateTask and x is then the owner or a member of the task's board; no
\* updateBoard changes a task, so a task whose assignee or reviewer has been
\* removed from the member set keeps the reference.
C21_MembershipAtSetTime ==
    [][/\ \A t \in DOMAIN tasks' : \A f \in {"assignee", "reviewer"} :
            (tasks'[t][f] # None /\ (t \notin DOMAIN tasks \/ tasks[t][f] # tasks'[t][f]))
               => /\ Serves("createTask") \/ Serves("updateTask")
                  /\ OwnerOrMember(tasks'[t][f], tasks'[t].board)
       /\ Serves("updateBoard") => tasks' = tasks]_vars

C21_Witness ==
    /\ Served("updateBoard")
    /\ response.status = 200
    /\ \E t \in DOMAIN tasks :
         /\ tasks[t].board = request.id
         /\ tasks[t].assignee # None
         /\ ~OwnerOrMember(tasks[t].assignee, request.id)

\* the routes that address a board, a task, or a task's comments by an id
BoardRoutes == {"getBoard", "updateBoard", "deleteBoard"}
TaskRoutes ==
    {"getTask", "updateTask", "deleteTask", "listComments", "createComment",
     "getComment", "deleteComment"}

\* C22: a request that addresses a board or task that does not exist is answered
\* 404, and one whose caller is neither owner nor member of the board concerned
\* is answered 403, whatever its payload (never 400).
C22_ChecksBeforeValidation ==
    [][/\ (request.op \in BoardRoutes /\ Serves(request.op))
            => /\ request.id \notin DOMAIN boards => response'.status = 404
               /\ (request.id \in DOMAIN boards /\ ~OwnerOrMember(request.user, request.id))
                    => response'.status = 403
       /\ (Serves("createTask") /\ request.body.board # Absent)
            => LET b == request.body.board[1]
               IN /\ b \notin DOMAIN boards => response'.status = 404
                  /\ (b \in DOMAIN boards /\ ~OwnerOrMember(request.user, b))
                        => response'.status = 403
       /\ (request.op \in TaskRoutes /\ Serves(request.op))
            => /\ request.id \notin DOMAIN tasks => response'.status = 404
               /\ (request.id \in DOMAIN tasks
                   /\ ~OwnerOrMember(request.user, tasks[request.id].board))
                    => response'.status = 403]_vars

C25_OwnerFixed ==
    [][/\ \A b \in DOMAIN boards' :
            IF b \in DOMAIN boards THEN boards'[b].owner = boards[b].owner
            ELSE Serves("createBoard") /\ boards'[b].owner = request.user
       /\ (/\ request.op \in BoardRoutes
           /\ Serves(request.op)
           /\ request.id \in DOMAIN boards
           /\ request.user = boards[request.id].owner)
            => response'.status \in {200, 204, 400}]_vars

\* the owner, not in the member set a member has rewritten, is served
C25_Witness ==
    /\ Served("getBoard")
    /\ response.status = 200
    /\ request.user = boards[request.id].owner
    /\ boards[request.id].members # {}
    /\ request.user \notin boards[request.id].members

\* the request whose write a step performs: the one served, or the parked one
Writer == IF response' # response THEN request ELSE parked

\* C23: the membership checks of a request hold at the moment its write is
\* stored: a step that inserts or rewrites a task is of a caller then on the
\* task's board and sets assignee and reviewer only to users then on it, and a
\* step that inserts a comment is of an author then on the board of its task.
C23_CheckAndWriteAtomic ==
    [][/\ \A t \in DOMAIN tasks' :
            (t \notin DOMAIN tasks \/ tasks'[t] # tasks[t])
               => /\ OwnerOrMember(Writer.user, tasks'[t].board)
                  /\ \A f \in {"assignee", "reviewer"} :
                        (tasks'[t][f] # None
                         /\ (t \notin DOMAIN tasks \/ tasks[t][f] # tasks'[t][f]))
                           => OwnerOrMember(tasks'[t][f], tasks'[t].board)
       /\ \A c \in DOMAIN comments' \ DOMAIN comments :
            OwnerOrMember(comments'[c].author, tasks[comments'[c].task].board)]_vars

\* board b is between the two writes of a createBoard or updateBoard
HalfApplied(b) ==
    /\ parked.op \in {"createBoard", "updateBoard"}
    /\ parked.id = b
    /\ boards[b].members # MemberSet(parked.body.members)

\* C24: a request answered 400, 403 or 404 leaves users, tokens, boards, tasks
\* and comments as they were, and no request is shown a board between the two
\* writes of a createBoard or updateBoard.
C24_AllOrNothing ==
    [][/\ (response = NoResponse /\ response'.status \in {400, 403, 404})
            => UNCHANGED <<users, tokens, boards, tasks, comments>>
       /\ (Serves("getBoard") /\ response'.status = 200) => ~HalfApplied(request.id)]_vars
=============================================================================
